---- MODULE Spec2Model ----
(***************************************************************************)
(* The builtin symbol table of rule_engine (lib/rule_engine/builtins.py):  *)
(* Builtins objects on a heap, the BuiltinValueGenerator wrapper, the      *)
(* default table built by Builtins.from_defaults, and the read operations  *)
(* __getitem__, resolve_type, __iter__ and __len__.                        *)
(*                                                                         *)
(* Python values are records tagged by "kind":                             *)
(*   none      None                                                        *)
(*   str       a string                                                    *)
(*   lit       any other plain literal (its repr in v)                     *)
(*   fn        a plain callable (a function that is no generator)          *)
(*   gen       a BuiltinValueGenerator wrapping the producer "callable"    *)
(*   dict      a plain mapping, m its items                                *)
(*   table     a reference to the Builtins object heap[id]                 *)
(*   tz        a tzinfo object                                             *)
(*   datetime  an aware datetime: calendar fields and its tzinfo           *)
(*   partial   functools.partial(f, bound)                                 *)
(*   names     the keys an iteration yields                                *)
(* A mapping's items are a function from names to values; the order of a   *)
(* dict's keys is not modelled.                                            *)
(***************************************************************************)
EXTENDS Integers, Sequences, FiniteSets, TLC

VARIABLES
    heap,     \* object id -> Builtins object (its four attributes)
    clock,    \* the system clock, UTC: [day, second, microsecond]
    ticks,    \* how many times the clock has advanced
    built,    \* the arguments the root default table was built from
    result    \* the outcome of the last operation a caller made

vars == <<heap, clock, ticks, built, result>>

\* ---------------------------------------------------------------- bounds
\* Objects on the heap: the two tables built at setup plus child tables.
MaxObjects == 4
\* Advances of the clock.
MaxTicks == 1

\* ------------------------------------------------ calendar arithmetic
SecondsPerDay == 86400
SecondsPerHour == 3600
SecondsPerMinute == 60
MicrosPerSecond == 1000000

\* ---------------------------------------------------------------- values
None == [kind |-> "none"]
Str(s) == [kind |-> "str", v |-> s]
Lit(s) == [kind |-> "lit", v |-> s]
Fn(f) == [kind |-> "fn", f |-> f]
Dict(m) == [kind |-> "dict", m |-> m]
Ref(i) == [kind |-> "table", id |-> i]
Tz(n) == [kind |-> "tz", name |-> n]
EmptyDict == [n \in {} |-> None]

\* BuiltinValueGenerator.__init__: the wrapper holds the producer.
BuiltinValueGenerator(callable) == [kind |-> "gen", callable |-> callable]

\* isinstance(value, collections.abc.Mapping): a dict or a Builtins object.
IsMapping(value) == value.kind \in {"dict", "table"}

\* callable(value) and isinstance(value, BuiltinValueGenerator)
IsGenerator(value) == value.kind = "gen"

\* The timezones of the model and their fixed offsets from UTC in seconds.
\* "local" is what dateutil.tz.tzlocal() gives on the host.
TimezoneNames == {"utc", "plus1", "minus5", "local"}
UtcOffset(tz) ==
    CASE tz.name = "utc" -> 0
      [] tz.name = "plus1" -> SecondsPerHour
      [] tz.name = "minus5" -> 0 - 5 * SecondsPerHour
      [] tz.name = "local" -> SecondsPerHour
TzLocal == Tz("local")

\* A plausible fault: the UTC calendar fields labelled with tz (utcnow().replace(tzinfo=tz)).
DateTimeUtcNowLabelled(tz, clk) ==
    [kind |-> "datetime",
     day |-> clk.day,
     hour |-> clk.second \div SecondsPerHour,
     minute |-> (clk.second % SecondsPerHour) \div SecondsPerMinute,
     second |-> clk.second % SecondsPerMinute,
     microsecond |-> clk.microsecond,
     tzinfo |-> tz]

\* datetime.datetime.now(tz): the clock's instant in tz's calendar fields.
DateTimeNow(tz, clk) ==
    LET shifted == clk.second + UtcOffset(tz)
        sod == shifted % SecondsPerDay
    IN [kind |-> "datetime",
        day |-> clk.day + (shifted \div SecondsPerDay),
        hour |-> sod \div SecondsPerHour,
        minute |-> (sod % SecondsPerHour) \div SecondsPerMinute,
        second |-> sod % SecondsPerMinute,
        microsecond |-> clk.microsecond,
        tzinfo |-> tz]

\* datetime.replace(hour=0, minute=0, second=0, microsecond=0)
ReplaceMidnight(dt) ==
    [dt EXCEPT !.hour = 0, !.minute = 0, !.second = 0, !.microsecond = 0]

\* The absolute instant an aware datetime denotes: <<seconds, microseconds>>
\* since day 0 00:00 UTC (what datetime equality and ordering compare).
Instant(dt) ==
    <<dt.day * SecondsPerDay + dt.hour * SecondsPerHour
        + dt.minute * SecondsPerMinute + dt.second - UtcOffset(dt.tzinfo),
      dt.microsecond>>

\* The calendar fields of a datetime, without its tzinfo.
CalendarFields(dt) == <<dt.day, dt.hour, dt.minute, dt.second, dt.microsecond>>

\* ----------------------------------------------------- Builtins objects
\* Builtins.__init__
BuiltinsInit(values, namespace, timezone, value_types) ==
    [values |-> values,
     value_types |-> IF value_types = None \/ DOMAIN value_types = {}
                     THEN EmptyDict ELSE value_types,
     namespace |-> namespace,
     timezone |-> IF timezone = None THEN TzLocal ELSE timezone]

\* dict.update: the items of other replace or extend those of d.
DictUpdate(d, other) ==
    [n \in DOMAIN d \cup DOMAIN other |->
        IF n \in DOMAIN other THEN other[n] ELSE d[n]]

\* dict.get / dict.pop with a default
DictGet(d, key, default) == IF key \in DOMAIN d THEN d[key] ELSE default

\* Outcomes of an evaluation: a value, or a raised exception.
Returned(value, h, invoked) ==
    [status |-> "ok", value |-> value, heap |-> h, invoked |-> invoked]
Raised(exc, h, invoked) ==
    [status |-> exc, value |-> None, heap |-> h, invoked |-> invoked]

\* ------------------------------------------------------------ producers
\* What a BuiltinValueGenerator's call records: the producer that ran, the
\* table it was handed, and the clock reading it was made at.
Invocation(callable, builtins, clk) ==
    [callable |-> callable, builtins |-> builtins, at |-> clk]

\* now = BuiltinValueGenerator(lambda builtins: datetime.datetime.now(tz=builtins.timezone))
NowProducer(h, builtins, clk) ==
    Returned(DateTimeNow(h[builtins].timezone, clk), h,
             <<Invocation("now", builtins, clk)>>)

\* A plausible fault: today's date is taken from the UTC calendar.
TodayProducerUtcDate(h, builtins, clk) ==
    Returned(ReplaceMidnight([DateTimeNow(Tz("utc"), clk) EXCEPT
                                !.tzinfo = h[builtins].timezone]), h,
             <<Invocation("today", builtins, clk), Invocation("now", builtins, clk)>>)

\* 'today': lambda builtins: now(builtins).replace(hour=0, minute=0, second=0, microsecond=0)
TodayProducer(h, builtins, clk) ==
    LET n == NowProducer(h, builtins, clk)
    IN Returned(ReplaceMidnight(n.value), h,
                <<Invocation("today", builtins, clk)>> \o n.invoked)

\* 'parse_datetime': lambda builtins: functools.partial(_builtin_parse_datetime, builtins)
ParseDatetimeProducer(h, builtins, clk) ==
    Returned([kind |-> "partial", f |-> "_builtin_parse_datetime", bound |-> builtins],
             h, <<Invocation("parse_datetime", builtins, clk)>>)

\* A producer supplied by the caller that raises.
BoomProducer(h, builtins, clk) ==
    Raised("ProducerError", h, <<Invocation("boom", builtins, clk)>>)

\* BuiltinValueGenerator.__call__: self.callable(builtins)
GeneratorCall(gen, h, builtins, clk) ==
    CASE gen.callable = "now" -> NowProducer(h, builtins, clk)
      [] gen.callable = "today" -> TodayProducer(h, builtins, clk)
      [] gen.callable = "parse_datetime" -> ParseDatetimeProducer(h, builtins, clk)
      [] gen.callable = "boom" -> BoomProducer(h, builtins, clk)

\* ------------------------------------------------------ the default table
\* ast.DataType.UNDEFINED
UNDEFINED == "UNDEFINED"

\* default_values of from_defaults
DefaultValues ==
    [n \in {"e", "pi", "now", "today", "any", "all", "sum", "map", "filter",
            "parse_datetime", "parse_timedelta"} |->
        CASE n = "e" -> Lit("2.718281828459045")
          [] n = "pi" -> Lit("3.141592653589793")
          [] n = "now" -> BuiltinValueGenerator("now")
          [] n = "today" -> BuiltinValueGenerator("today")
          [] n = "any" -> Fn("any")
          [] n = "all" -> Fn("all")
          [] n = "sum" -> Fn("sum")
          [] n = "map" -> Fn("_builtin_map")
          [] n = "filter" -> Fn("_builtin_filter")
          [] n = "parse_datetime" -> BuiltinValueGenerator("parse_datetime")
          [] n = "parse_timedelta" -> Fn("parse_timedelta")]

\* default_value_types of from_defaults
DefaultValueTypes ==
    [n \in {"e", "pi", "now", "today", "any", "all", "sum", "map", "filter",
            "parse_datetime", "parse_timedelta"} |->
        CASE n = "e" -> "FLOAT"
          [] n = "pi" -> "FLOAT"
          [] n = "now" -> "DATETIME"
          [] n = "today" -> "DATETIME"
          [] n = "all" -> "FUNCTION(all, ARRAY) -> BOOLEAN"
          [] n = "any" -> "FUNCTION(any, ARRAY) -> BOOLEAN"
          [] n = "sum" -> "FUNCTION(sum, ARRAY(FLOAT)) -> FLOAT"
          [] n = "map" -> "FUNCTION(map, FUNCTION, ARRAY)"
          [] n = "filter" -> "FUNCTION(filter, FUNCTION, ARRAY)"
          [] n = "parse_datetime" -> "FUNCTION(parse_datetime, STRING) -> DATETIME"
          [] n = "parse_timedelta" -> "FUNCTION(parse_timedelta, STRING) -> TIMEDELTA"]

\* A plausible fault: the defaults are laid over the caller's values.
MergedValuesDefaultsWin(values) ==
    DictUpdate(IF values = None THEN EmptyDict ELSE values, DefaultValues)

\* default_values.update(values or {})
MergedValues(values) ==
    DictUpdate(DefaultValues, IF values = None THEN EmptyDict ELSE values)

\* default_value_types.update(kwargs.pop('value_types', {}))
MergedValueTypes(kwargs) ==
    DictUpdate(DefaultValueTypes, DictGet(kwargs, "value_types", EmptyDict))

\* Builtins.from_defaults(values, **kwargs): the object it returns.
FromDefaults(values, kwargs) ==
    BuiltinsInit(Dict(MergedValues(values)),
                 DictGet(kwargs, "namespace", None),
                 DictGet(kwargs, "timezone", None),
                 MergedValueTypes(kwargs))

\* ------------------------------------------------------------- the reads
\* A plausible fault: a missing key yields None (dict.get) where the code raises.
DictItemOrNone(h, m, name) ==
    Returned(IF name \in DOMAIN m THEN m[name] ELSE None, h, <<>>)

\* self.__values[name] on a dict: its item, or KeyError.
DictItem(h, m, name) ==
    IF name \in DOMAIN m
    THEN Returned(m[name], h, <<>>)
    ELSE Raised("KeyError", h, <<>>)

\* The namespace of the child table __getitem__ builds for name.
ChildNamespace(namespace, name) ==
    IF namespace = None THEN Str(name) ELSE Str(namespace.v \o "." \o name)

\* A plausible fault: the child is handed its parent's type map.
ChildTableInheritingTypes(parent, value, name) ==
    BuiltinsInit(value, ChildNamespace(parent.namespace, name), parent.timezone,
                 parent.value_types)

\* self.__class__(value, namespace=namespace, timezone=self.timezone)
ChildTable(parent, value, name) ==
    BuiltinsInit(value, ChildNamespace(parent.namespace, name), parent.timezone, None)

\* A plausible fault: an equal object built before is handed out again (a cache).
AllocateCached(h, object) ==
    IF \E i \in DOMAIN h : h[i] = object
    THEN [id |-> CHOOSE i \in DOMAIN h : h[i] = object, heap |-> h]
    ELSE [id |-> Cardinality(DOMAIN h) + 1,
          heap |-> h @@ ((Cardinality(DOMAIN h) + 1) :> object)]

\* Constructing an object puts it on the heap under an id no object has had.
Allocate(h, object) ==
    [id |-> Cardinality(DOMAIN h) + 1,
     heap |-> h @@ ((Cardinality(DOMAIN h) + 1) :> object)]

\* A plausible fault: the generated value is stored back in place of the generator.
GenerateMemoized(h, self, name, gen, clk) ==
    LET made == GeneratorCall(gen, h, self, clk)
    IN IF made.status = "ok" /\ h[self].values.kind = "dict"
       THEN [made EXCEPT !.heap = [h EXCEPT ![self].values.m[name] = made.value]]
       ELSE made

\* value = value(self)
Generate(h, self, name, gen, clk) == GeneratorCall(gen, h, self, clk)

\* Builtins.__getitem__(self, name), evaluated on heap h at clock reading
\* clk: the value returned or the exception raised, the heap afterwards and
\* the producer invocations made. self.__values is a dict, or (in a child
\* built over a Builtins object) that object, whose own __getitem__ answers.
RECURSIVE GetItem(_, _, _, _)
GetItem(h, self, name, clk) ==
    LET backing == h[self].values
        stored == IF backing.kind = "table"
                  THEN GetItem(h, backing.id, name, clk)
                  ELSE DictItem(h, backing.m, name)
    IN  IF stored.status # "ok" THEN stored
        ELSE IF IsMapping(stored.value)
        THEN LET new == Allocate(stored.heap, ChildTable(h[self], stored.value, name))
             IN Returned(Ref(new.id), new.heap, stored.invoked)
        ELSE IF IsGenerator(stored.value)
        THEN LET made == Generate(stored.heap, self, name, stored.value, clk)
             IN [made EXCEPT !.invoked = stored.invoked \o made.invoked]
        ELSE stored

\* Builtins.__iter__: iter(self.__values), the keys of the backing mapping.
RECURSIVE Keys(_, _)
Keys(h, self) ==
    LET backing == h[self].values
    IN IF backing.kind = "table" THEN Keys(h, backing.id) ELSE DOMAIN backing.m

\* Builtins.__len__: len(self.__values)
Length(h, self) == Cardinality(Keys(h, self))

\* A plausible fault: the type is asked of the value mapping first, so that a name
\* with no value raises.
TypeOfValued(h, self, name) ==
    IF name \in Keys(h, self)
    THEN Returned([kind |-> "type", t |-> DictGet(h[self].value_types, name, UNDEFINED)],
                  h, <<>>)
    ELSE Raised("KeyError", h, <<>>)

\* Builtins.resolve_type: self.__value_types.get(name, UNDEFINED)
TypeOf(h, self, name) ==
    Returned([kind |-> "type", t |-> DictGet(h[self].value_types, name, UNDEFINED)],
             h, <<>>)

\* ------------------------------------------------------------ the setup
\* The two tables built at setup.
InnerId == 1
RootId == 2

\* The table stored as a value of the root: a default table of its own, with
\* a nested mapping, a namespace, a timezone and a type map.
InnerValues ==
    [n \in {"cfg", "k"} |->
        IF n = "cfg"
        THEN Dict([x \in {"now", "k"} |->
                    IF x = "now" THEN BuiltinValueGenerator("now") ELSE Lit("1")])
        ELSE Lit("2")]
InnerValueTypes == [n \in {"k", "e"} |-> IF n = "k" THEN "FLOAT" ELSE "STRING"]
InnerTable(tz) ==
    FromDefaults(InnerValues,
                 [a \in {"namespace", "timezone", "value_types"} |->
                    CASE a = "namespace" -> Str("lib")
                      [] a = "timezone" -> tz
                      [] a = "value_types" -> InnerValueTypes])

\* The values a caller overrides the defaults of the root with: nothing, or
\* a nested mapping (two levels, with generators), the inner table, a
\* generator whose producer raises, and (in the third) a new value for "e".
NsMapping ==
    Dict([n \in {"sub", "today", "e"} |->
            CASE n = "sub" -> Dict([x \in {"now", "k"} |->
                                    IF x = "now" THEN BuiltinValueGenerator("now")
                                    ELSE Lit("1")])
              [] n = "today" -> BuiltinValueGenerator("today")
              [] n = "e" -> Lit("7")])
NestedOverride ==
    [n \in {"ns", "tbl", "boom"} |->
        CASE n = "ns" -> NsMapping
          [] n = "tbl" -> Ref(InnerId)
          [] n = "boom" -> BuiltinValueGenerator("boom")]
RootValueChoices ==
    {None, NestedOverride, DictUpdate(NestedOverride, [n \in {"e"} |-> Lit("5")])}

\* The type overrides of the root, when the caller gives any.
RootValueTypes ==
    [n \in {"e", "ns", "zz"} |->
        CASE n = "e" -> "STRING" [] n = "ns" -> "MAPPING" [] n = "zz" -> "BOOLEAN"]

\* The keyword arguments of from_defaults: a timezone, with or without
\* value_types.
RootKwargChoices ==
    {[a \in keys |-> IF a = "value_types" THEN RootValueTypes ELSE Tz("minus5")] :
        keys \in {{"timezone"}, {"timezone", "value_types"}}}

\* Clock readings one microsecond before midnight: in UTC, in the timezones
\* one hour east, and in the timezone five hours west; and noon.
ClockStarts ==
    {[day |-> 1, second |-> s, microsecond |-> u] :
        <<s, u>> \in {<<SecondsPerDay - 1, MicrosPerSecond - 1>>,
                      <<SecondsPerDay - SecondsPerHour - 1, MicrosPerSecond - 1>>,
                      <<5 * SecondsPerHour - 1, MicrosPerSecond - 1>>,
                      <<12 * SecondsPerHour, 0>>}}

NoResult ==
    [op |-> "none", table |-> 0, name |-> "", status |-> "ok", value |-> None,
     invoked |-> <<>>, at |-> [day |-> 0, second |-> 0, microsecond |-> 0]]

Setup(values, kwargs, innerTz, start) ==
    /\ heap = (InnerId :> InnerTable(innerTz)) @@ (RootId :> FromDefaults(values, kwargs))
    /\ clock = start
    /\ ticks = 0
    /\ built = [values |-> values, kwargs |-> kwargs]
    /\ result = NoResult

\* Every way of building the root, the inner table in another timezone, just
\* before midnight UTC.
Init ==
    \E values \in RootValueChoices, kwargs \in RootKwargChoices :
        Setup(values, kwargs, Tz("plus1"),
              [day |-> 1, second |-> SecondsPerDay - 1,
               microsecond |-> MicrosPerSecond - 1])

\* Two default tables, the root with no values of the caller's, in every pair
\* of timezones (the root's possibly the host's), at every clock start.
InitClock ==
    \E tzname \in TimezoneNames \ {"local"}, innerTz \in {Tz(n) : n \in TimezoneNames},
       start \in ClockStarts, given \in BOOLEAN :
        Setup(None,
              IF given THEN [a \in {"timezone"} |-> Tz(tzname)] ELSE EmptyDict,
              innerTz, start)

\* ----------------------------------------------------------- the actions
\* The names callers look up: every kind of entry, at every level, and one
\* that is nowhere.
LookupNames ==
    {"e", "now", "today", "any", "parse_datetime", "ns", "sub", "tbl", "cfg",
     "boom", "missing"}
TypeNames == {"e", "k", "zz", "missing"}

\* value = table[name]
Lookup(self, name) ==
    \E r \in {GetItem(heap, self, name, clock)} :
       /\ Cardinality(DOMAIN r.heap) <= MaxObjects
       /\ heap' = r.heap
       /\ result' = [op |-> "getitem", table |-> self, name |-> name,
                     status |-> r.status, value |-> r.value,
                     invoked |-> r.invoked, at |-> clock]
       /\ UNCHANGED <<clock, ticks, built>>

\* table.resolve_type(name)
ResolveType(self, name) ==
    \E r \in {TypeOf(heap, self, name)} :
       /\ heap' = r.heap
       /\ result' = [op |-> "resolve_type", table |-> self, name |-> name,
                     status |-> r.status, value |-> r.value,
                     invoked |-> r.invoked, at |-> clock]
       /\ UNCHANGED <<clock, ticks, built>>

\* iter(table)
Iterate(self) ==
    /\ result' = [op |-> "iter", table |-> self, name |-> "", status |-> "ok",
                  value |-> [kind |-> "names", names |-> Keys(heap, self)],
                  invoked |-> <<>>, at |-> clock]
    /\ UNCHANGED <<heap, clock, ticks, built>>

\* len(table)
Size(self) ==
    /\ result' = [op |-> "len", table |-> self, name |-> "", status |-> "ok",
                  value |-> [kind |-> "int", n |-> Length(heap, self)],
                  invoked |-> <<>>, at |-> clock]
    /\ UNCHANGED <<heap, clock, ticks, built>>

\* The system clock advances by one microsecond.
Tick ==
    /\ ticks < MaxTicks
    /\ ticks' = ticks + 1
    /\ clock' =
        IF clock.microsecond + 1 < MicrosPerSecond
        THEN [clock EXCEPT !.microsecond = @ + 1]
        ELSE IF clock.second + 1 < SecondsPerDay
        THEN [clock EXCEPT !.microsecond = 0, !.second = @ + 1]
        ELSE [day |-> clock.day + 1, second |-> 0, microsecond |-> 0]
    /\ UNCHANGED <<heap, built, result>>

\* The calls of an evaluator that resolves timestamps only.
NextClock ==
    \/ \E self \in DOMAIN heap, name \in {"now", "today"} : Lookup(self, name)
    \/ Tick

\* The tables an evaluator set up with the root holds: the root and the
\* children it was handed. The inner table is reached through the root.
Held == DOMAIN heap \ {InnerId}

Next ==
    \/ \E self \in Held, name \in LookupNames : Lookup(self, name)
    \/ \E self \in Held, name \in TypeNames : ResolveType(self, name)
    \/ \E self \in Held : Iterate(self)
    \/ \E self \in Held : Size(self)
    \/ Tick

Spec == Init /\ [][Next]_vars
SpecClock == InitClock /\ [][NextClock]_vars

\* ------------------------------------------------- vocabulary of the properties
\* The table whose dict holds the entries self answers from: self, or the
\* Builtins object a child was built over.
RECURSIVE DictOwner(_, _)
DictOwner(h, self) ==
    IF h[self].values.kind = "table" THEN DictOwner(h, h[self].values.id) ELSE self

\* The entry kept under name, for a name that is a key of the table.
StoredEntry(h, self, name) == h[DictOwner(h, self)].values.m[name]

\* The table is a child a lookup built, not one built at setup.
IsChild(self) == self \notin {InnerId, RootId}

\* The last operation resolved this entry: a plain value is handed back as it
\* is, a mapping as a child table built over it, a generator by a call of
\* its producer.
Resolves(entry) ==
    CASE entry.kind \in {"lit", "fn"} ->
            result.status = "ok" /\ result.value = entry
      [] IsMapping(entry) ->
            /\ result.status = "ok"
            /\ result.value.kind = "table"
            /\ heap[result.value.id].values = entry
      [] IsGenerator(entry) ->
            /\ result.invoked # <<>>
            /\ result.invoked[1].callable = entry.callable

\* The instant of a clock reading, as Instant gives that of a datetime.
ClockInstant(clk) == <<clk.day * SecondsPerDay + clk.second, clk.microsecond>>

\* -------------------------------------------------------------------- C1
\* C1, as stated: a lookup of a name that is a key of the table's backing
\* mapping never fails, and a lookup of any other name raises KeyError (the
\* spec's UndefinedSymbol) and nothing else; for every kind of entry and for
\* child tables too.
C1_LookupOfPresentNameNeverFails ==
    result.op = "getitem" =>
        IF result.name \in Keys(heap, result.table)
        THEN result.status = "ok"
        ELSE result.status = "KeyError"

\* C1, amended: a lookup of a name that is no key raises KeyError; a lookup
\* of a key fails only when the entry is a generator whose producer raises,
\* and then with the producer's own exception.
C1_LookupFailsOnlyOnAbsentNameOrProducer ==
    result.op = "getitem" =>
        IF result.name \notin Keys(heap, result.table)
        THEN result.status = "KeyError"
        ELSE LET entry == StoredEntry(heap, result.table, result.name)
             IN IF IsGenerator(entry) /\ entry.callable = "boom"
                THEN result.status = "ProducerError"
                ELSE result.status = "ok"

\* A child table was asked for a name its parent has and it has not.
C1_Witness ==
    /\ result.op = "getitem"
    /\ IsChild(result.table)
    /\ result.name \in Keys(heap, RootId)
    /\ result.status = "KeyError"

\* -------------------------------------------------------------------- C2
\* C2: resolve_type never fails, for a name with or without a value; it
\* returns the type recorded in the table's type map or UNDEFINED when none
\* is; it calls no producer; and every table with an equal type map gives
\* the same answer, whatever its values.
C2_ResolveTypeNeverFails ==
    result.op = "resolve_type" =>
        LET types == heap[result.table].value_types
        IN /\ result.status = "ok"
           /\ result.invoked = <<>>
           /\ result.name \in DOMAIN types => result.value.t = types[result.name]
           /\ result.name \notin DOMAIN types => result.value.t = UNDEFINED
           /\ \A other \in DOMAIN heap :
                heap[other].value_types = types =>
                    TypeOf(heap, other, result.name).value = result.value

\* A type was reported for a name the table holds no value for.
C2_Witness ==
    /\ result.op = "resolve_type"
    /\ result.name \notin Keys(heap, result.table)
    /\ result.value.t # UNDEFINED

\* -------------------------------------------------------------------- C3
\* C3: no operation changes the backing mapping or the type map of any table,
\* root or child, whatever the order of the calls: lookups that fail, call
\* generators or build child tables included.
C3_TablesNeverChange ==
    [][\A id \in DOMAIN heap :
        /\ id \in DOMAIN heap'
        /\ heap'[id].values = heap[id].values
        /\ heap'[id].value_types = heap[id].value_types]_vars

\* After a child was built and a producer raised, the root is as built.
C3_Witness ==
    /\ Cardinality(DOMAIN heap) > 2
    /\ result.status = "ProducerError"
    /\ heap[RootId] = FromDefaults(built.values, built.kwargs)

\* -------------------------------------------------------------------- C4
\* C4: on a table built by from_defaults, a lookup resolves the caller's
\* value for every name the caller gave one and the canonical builtin
\* otherwise, and resolve_type reports the caller's type for every name the
\* caller gave one and the canonical type otherwise: a new value for "e"
\* leaves its type FLOAT, and a new type leaves the value.
C4_OverridesAreIndependent ==
    LET values == IF built.values = None THEN EmptyDict ELSE built.values
        types == DictGet(built.kwargs, "value_types", EmptyDict)
        n == result.name
    IN result.table = RootId =>
        /\ result.op = "getitem" =>
            IF n \in DOMAIN values THEN Resolves(values[n])
            ELSE IF n \in DOMAIN DefaultValues THEN Resolves(DefaultValues[n])
            ELSE result.status = "KeyError"
        /\ result.op = "resolve_type" =>
            result.value.t =
                IF n \in DOMAIN types THEN types[n]
                ELSE IF n \in DOMAIN DefaultValueTypes THEN DefaultValueTypes[n]
                ELSE UNDEFINED

\* The caller overrode the value of "e" alone and its type is still FLOAT.
C4_Witness ==
    /\ built.values # None
    /\ "e" \in DOMAIN built.values
    /\ "value_types" \notin DOMAIN built.kwargs
    /\ result.op = "resolve_type"
    /\ result.table = RootId
    /\ result.name = "e"
    /\ result.value.t = "FLOAT"

\* -------------------------------------------------------------------- C5
\* C5, as stated: a lookup of a namespace-valued name returns a child whose
\* path is the parent's path, a dot and the name (the name alone under a
\* parent with no path) and whose timezone is the parent's; and a generator
\* resolved through a table is called with that table, so that a timestamp
\* it produces is in that table's (the root's) timezone.
C5_ChildPathTimezoneAndGenerators ==
    (result.op = "getitem" /\ result.status = "ok") =>
        LET parent == heap[result.table]
        IN /\ result.value.kind = "table" =>
                /\ heap[result.value.id].namespace =
                        IF parent.namespace = None
                        THEN Str(result.name)
                        ELSE Str(parent.namespace.v \o "." \o result.name)
                /\ heap[result.value.id].timezone = parent.timezone
           /\ \A i \in DOMAIN result.invoked :
                result.invoked[i].builtins = result.table
           /\ result.value.kind = "datetime" =>
                result.value.tzinfo = parent.timezone

\* -------------------------------------------------------------------- C6
\* C6, as stated: resolve_type on a child table returns UNDEFINED for every
\* name, unless the nested mapping was itself a table with a type map of its
\* own, and then the child reports that table's types.
C6_ChildReportsNestedTableTypes ==
    (result.op = "resolve_type" /\ IsChild(result.table)) =>
        LET backing == heap[result.table].values
        IN IF backing.kind = "table"
           THEN result.value = TypeOf(heap, backing.id, result.name).value
           ELSE result.value.t = UNDEFINED

\* C6, amended: resolve_type on a child table returns UNDEFINED for every
\* name: one whose type the parent records, and one whose type the nested
\* mapping records when that is itself a table with a type map of its own.
C6_ChildHasNoTypes ==
    (result.op = "resolve_type" /\ IsChild(result.table)) =>
        /\ result.status = "ok"
        /\ result.value.t = UNDEFINED

\* A child built over the inner table was asked the type of a name whose
\* type the inner table records.
C6_Witness ==
    /\ result.op = "resolve_type"
    /\ IsChild(result.table)
    /\ heap[result.table].values = Ref(InnerId)
    /\ result.name \in DOMAIN heap[InnerId].value_types

\* -------------------------------------------------------------------- C7
\* C7: every lookup of a namespace-valued name builds a new child table: the
\* object it returns is none of the objects there were, and two lookups of
\* the same name on the same table, one after the other, return two objects
\* with equal namespace paths and equal sets of direct names.
C7_ChildIsAlwaysNew ==
    [][(/\ result' # result
        /\ result'.op = "getitem"
        /\ result'.status = "ok"
        /\ result'.value.kind = "table") =>
        /\ result'.value.id \notin DOMAIN heap
        /\ result'.value.id \in DOMAIN heap'
        /\ (/\ result.op = "getitem"
            /\ result.status = "ok"
            /\ result.value.kind = "table"
            /\ result.table = result'.table
            /\ result.name = result'.name) =>
                /\ result'.value.id # result.value.id
                /\ heap'[result'.value.id].namespace = heap[result.value.id].namespace
                /\ Keys(heap', result'.value.id) = Keys(heap, result.value.id)]_vars

\* The child just returned has an older twin: an equal object under
\* another id.
C7_Witness ==
    /\ result.op = "getitem"
    /\ result.status = "ok"
    /\ result.value.kind = "table"
    /\ \E older \in DOMAIN heap :
        /\ older < result.value.id
        /\ heap[older] = heap[result.value.id]

\* -------------------------------------------------------------------- C8
\* C8: the value a lookup of "today" returns has hour, minute, second and
\* microsecond zero, and the date and timezone of the "now" the same table
\* resolves at the same clock reading; at every reading, those next to
\* midnight included.
C8_TodayIsMidnightOfNow ==
    (/\ result.op = "getitem"
     /\ result.name = "today"
     /\ result.status = "ok"
     /\ result.value.kind = "datetime") =>
        LET now == GetItem(heap, result.table, "now", result.at)
        IN /\ result.value.hour = 0
           /\ result.value.minute = 0
           /\ result.value.second = 0
           /\ result.value.microsecond = 0
           /\ now.status = "ok"
           /\ result.value.day = now.value.day
           /\ result.value.tzinfo = now.value.tzinfo

\* "today" was resolved in the last microsecond of a day of a timezone that
\* is not UTC.
C8_Witness ==
    /\ result.op = "getitem"
    /\ result.name = "today"
    /\ result.status = "ok"
    /\ UtcOffset(heap[result.table].timezone) # 0
    /\ LET now == DateTimeNow(heap[result.table].timezone, result.at)
       IN /\ now.hour = 23
          /\ now.minute = 59
          /\ now.second = 59
          /\ now.microsecond = MicrosPerSecond - 1

\* -------------------------------------------------------------------- C9
\* C9, as stated: at one clock reading, two default tables whose timezones
\* have different offsets resolve "now" to different absolute instants, and
\* two whose timezones share an offset to identical calendar fields.
C9_DifferentOffsetsDifferentInstants ==
    (/\ result.op = "getitem"
     /\ result.name = "now"
     /\ result.status = "ok"
     /\ result.table \in {InnerId, RootId}) =>
        \A other \in {InnerId, RootId} \ {result.table} :
            LET there == GetItem(heap, other, "now", result.at).value
            IN IF UtcOffset(heap[other].timezone) = UtcOffset(heap[result.table].timezone)
               THEN CalendarFields(there) = CalendarFields(result.value)
               ELSE Instant(there) # Instant(result.value)

\* C9, amended: at one clock reading, two default tables resolve "now" to
\* the same absolute instant (the clock's) whatever their timezones; the
\* calendar fields are identical when the timezones share an offset and
\* differ when the offsets differ.
C9_SameInstantFieldsByOffset ==
    (/\ result.op = "getitem"
     /\ result.name = "now"
     /\ result.status = "ok"
     /\ result.table \in {InnerId, RootId}) =>
        /\ Instant(result.value) = ClockInstant(result.at)
        /\ \A other \in {InnerId, RootId} \ {result.table} :
            LET there == GetItem(heap, other, "now", result.at).value
            IN /\ Instant(there) = Instant(result.value)
               /\ (UtcOffset(heap[other].timezone) = UtcOffset(heap[result.table].timezone))
                    <=> (CalendarFields(there) = CalendarFields(result.value))

\* "now" was resolved on the root while the inner table's timezone has
\* another offset.
C9_Witness ==
    /\ result.op = "getitem"
    /\ result.name = "now"
    /\ result.status = "ok"
    /\ result.table = RootId
    /\ UtcOffset(heap[InnerId].timezone) # UtcOffset(heap[RootId].timezone)

\* ------------------------------------------------------------------- C10
\* C10, as stated: a lookup of a generator entry calls its producer exactly
\* once, with the table the lookup was made on and at the clock reading of
\* the lookup (nothing is memoized), and returns what that call produced or
\* raises what it raised; a lookup of a plain callable or of any other
\* literal calls nothing and returns the stored value unchanged.
C10_LookupDispatchesWithoutMemo ==
    (result.op = "getitem" /\ result.name \in Keys(heap, result.table)) =>
        LET entry == StoredEntry(heap, result.table, result.name)
            own == {i \in DOMAIN result.invoked :
                        result.invoked[i].callable = entry.callable}
        IN CASE IsGenerator(entry) ->
                    /\ Cardinality(own) = 1
                    /\ \A i \in DOMAIN result.invoked :
                        /\ result.invoked[i].builtins = result.table
                        /\ result.invoked[i].at = result.at
                    /\ result.status =
                        IF entry.callable = "boom" THEN "ProducerError" ELSE "ok"
                    /\ entry.callable = "now" =>
                        result.value = DateTimeNow(heap[result.table].timezone, result.at)
             [] entry.kind \in {"lit", "fn"} ->
                    /\ result.status = "ok"
                    /\ result.invoked = <<>>
                    /\ result.value = entry
             [] OTHER -> TRUE

====
